---- MODULE Spec2Model ----
(***************************************************************************)
(* Chess clock controller of serwer.py: class ChessSystem (game state,     *)
(* timer loop, button loop, start_new_game, draw_clock) and run_server     *)
(* with its BLE write handler on_write.                                    *)
(*                                                                         *)
(* The three actors run on one asyncio event loop, so the code between two *)
(* awaits of a coroutine, and a whole call of the on_write callback, is    *)
(* one atomic step.  Strings are sequences of one-character strings so     *)
(* that startswith, split and int are computed as Python computes them.    *)
(***************************************************************************)
EXTENDS Integers, Sequences, FiniteSets, TLC

VARIABLES
    white_time,     \* self.white_time
    black_time,     \* self.black_time
    current_turn,   \* self.current_turn
    game_active,    \* self.game_active
    elo,            \* self.elo
    device,         \* self.device: the display object or None
    screen,         \* what the display shows: the last frame flushed to it
    main,           \* position of the process in __main__ / run_server
    timer_task,     \* the task running update_timer
    button_task,    \* the task running watch_buttons
    button_pc,      \* position of watch_buttons: polling or in the 0.5s sleep
    timer_pc,       \* position of update_timer: the line it executes next
    gpio,           \* the GPIO pins: set up by __init__, or cleaned up
    held,           \* environment: the button kept down by one continuous press
    run,            \* history: the start in effect and its ticks, while no toggle happened
    since,          \* history: the minutes of the last start and the ticks of its game
    toggles,        \* history: turn changes made by the button loop during the press
    twin,           \* the same program built without a display, fed the same events
    last            \* history: the step taken last

vars == <<white_time, black_time, current_turn, game_active, elo, device, screen,
          main, timer_task, button_task, button_pc, timer_pc, gpio, held,
          run, since, toggles, twin, last>>

gameVars == <<white_time, black_time, current_turn, game_active, elo>>

----------------------------------------------------------------------------
(* Bounds and program constants *)

\* the tick count of `run` saturates here (must exceed the longest game started)
MaxTicks == 61

\* the tick count of `since` saturates here (twice the longest game started)
MaxGameTicks == 120

\* the count of `toggles` saturates here
MaxToggles == 2

SecondsPerMinute == 60

DefaultElo == 800

DefaultTime == 600

WHITE == TRUE

BLACK == FALSE

\* the two colours of a panel border (C_GOLD for the side on turn, C_BROWN_D otherwise)
C_GOLD == "#C6A664"

C_BROWN_D == "#412C28"

----------------------------------------------------------------------------
(* Strings as Python sees them *)

START_GAME == <<"S", "T", "A", "R", "T", "_", "G", "A", "M", "E">>

ELO == <<"E", "L", "O">>

TIME == <<"T", "I", "M", "E">>

\* the prefix tested by on_write: "START_GAME:ELO:"
StartPrefix == START_GAME \o <<":">> \o ELO \o <<":">>

Digits == {"0", "1", "2", "3", "4", "5", "6", "7", "8", "9"}

DigitValue(c) ==
    CASE c = "0" -> 0 [] c = "1" -> 1 [] c = "2" -> 2 [] c = "3" -> 3 [] c = "4" -> 4
      [] c = "5" -> 5 [] c = "6" -> 6 [] c = "7" -> 7 [] c = "8" -> 8 [] c = "9" -> 9

\* str.startswith
startswith(data, prefix) ==
    /\ Len(data) >= Len(prefix)
    /\ SubSeq(data, 1, Len(prefix)) = prefix

\* str.split(sep) for a one-character separator: always at least one field,
\* empty fields are kept
RECURSIVE split(_, _)
split(data, sep) ==
    IF \A i \in 1..Len(data) : data[i] # sep
    THEN <<data>>
    ELSE LET i == CHOOSE j \in 1..Len(data) :
                      /\ data[j] = sep
                      /\ \A k \in 1..(j - 1) : data[k] # sep
         IN  <<SubSeq(data, 1, i - 1)>> \o split(SubSeq(data, i + 1, Len(data)), sep)

RECURSIVE DecimalValue(_)
DecimalValue(s) ==
    IF Len(s) = 0 THEN 0
    ELSE 10 * DecimalValue(SubSeq(s, 1, Len(s) - 1)) + DigitValue(s[Len(s)])

AllDigits(s) == Len(s) > 0 /\ \A i \in 1..Len(s) : s[i] \in Digits

\* int(str) over the characters used here (letters, digits, sign): an optional
\* sign followed by at least one digit, anything else raises ValueError
int(s) ==
    IF AllDigits(s) THEN [ok |-> TRUE, value |-> DecimalValue(s)]
    ELSE IF Len(s) > 1 /\ s[1] \in {"-", "+"} /\ AllDigits(Tail(s))
         THEN [ok |-> TRUE,
               value |-> IF s[1] = "-" THEN 0 - DecimalValue(Tail(s))
                         ELSE DecimalValue(Tail(s))]
         ELSE [ok |-> FALSE, value |-> 0]

\* ":".join(fields)
RECURSIVE join(_)
join(fields) ==
    IF Len(fields) = 0 THEN <<>>
    ELSE IF Len(fields) = 1 THEN fields[1]
    ELSE fields[1] \o <<":">> \o join(Tail(fields))

\* field lists of the command strings a peer writes to the characteristic
CommandFields ==
    { <<START_GAME, ELO, <<"1", "2">>, TIME, <<"1">>>>,              \* well formed
      <<START_GAME, ELO, <<"1", "2">>, TIME, <<"0">>>>,              \* zero minutes
      <<START_GAME, ELO, <<"1", "2">>, TIME, <<"-", "1">>>>,         \* negative minutes
      <<START_GAME, ELO, <<"a", "b", "c">>, TIME, <<"1">>>>,         \* non-integer difficulty
      <<START_GAME, ELO, <<"1", "2">>, TIME, <<"a", "b", "c">>>>,    \* non-integer minutes
      <<START_GAME, ELO, <<"1", "2">>, TIME, <<>>>>,                 \* empty minutes
      <<START_GAME, ELO, <<"1", "2">>, TIME>>,                       \* too few fields
      <<START_GAME, ELO, <<"1", "2">>>>,
      <<START_GAME, ELO, <<>>>>,
      <<START_GAME, ELO>>,
      <<START_GAME, ELO, <<"1", "2">>, TIME, <<"1">>, <<"x">>>>,     \* too many fields
      <<<<"S", "T", "O", "P">>>>,                                    \* another command
      <<>> }

Commands == { join(f) : f \in CommandFields }

----------------------------------------------------------------------------
(* The game state as one record, and the pure part of every handler *)

Game ==
    [white_time |-> white_time, black_time |-> black_time,
     current_turn |-> current_turn, game_active |-> game_active, elo |-> elo]

\* draw_clock with line 69 testing chess.WHITE like line 68: both borders follow
\* the white side
draw_clock_same_highlight(self) ==
    [w_outline |-> IF self.current_turn = WHITE THEN C_GOLD ELSE C_BROWN_D,
     b_outline |-> IF self.current_turn = WHITE THEN C_GOLD ELSE C_BROWN_D,
     wm |-> self.white_time \div 60, ws |-> self.white_time % 60,
     bm |-> self.black_time \div 60, bs |-> self.black_time % 60,
     elo |-> self.elo,
     banner |-> ~self.game_active]

\* the frame draw_clock paints for a state
draw_clock(self) ==
    [w_outline |-> IF self.current_turn = WHITE THEN C_GOLD ELSE C_BROWN_D,
     b_outline |-> IF self.current_turn = BLACK THEN C_GOLD ELSE C_BROWN_D,
     wm |-> self.white_time \div 60, ws |-> self.white_time % 60,
     bm |-> self.black_time \div 60, bs |-> self.black_time % 60,
     elo |-> self.elo,
     banner |-> ~self.game_active]

\* update_timer_step without the test of line 88: the clock also runs when no
\* game is active
update_timer_step_ignores_active(self) ==
    LET dec == IF self.current_turn = WHITE /\ self.white_time > 0
               THEN [self EXCEPT !.white_time = self.white_time - 1]
               ELSE IF self.current_turn = BLACK /\ self.black_time > 0
                    THEN [self EXCEPT !.black_time = self.black_time - 1]
                    ELSE self
    IN  IF dec.white_time <= 0 \/ dec.black_time <= 0
        THEN [dec EXCEPT !.game_active = FALSE]
        ELSE dec

\* update_timer_step with line 94 testing < 0: a clock at zero does not end
\* the game
update_timer_step_late_end(self) ==
    IF self.game_active
    THEN LET dec == IF self.current_turn = WHITE /\ self.white_time > 0
                    THEN [self EXCEPT !.white_time = self.white_time - 1]
                    ELSE IF self.current_turn = BLACK /\ self.black_time > 0
                         THEN [self EXCEPT !.black_time = self.black_time - 1]
                         ELSE self
         IN  IF dec.white_time < 0 \/ dec.black_time < 0
             THEN [dec EXCEPT !.game_active = FALSE]
             ELSE dec
    ELSE self

\* one iteration of update_timer, lines 88-95: the state it leaves
update_timer_step(self) ==
    IF self.game_active
    THEN LET dec == IF self.current_turn = WHITE /\ self.white_time > 0
                    THEN [self EXCEPT !.white_time = self.white_time - 1]
                    ELSE IF self.current_turn = BLACK /\ self.black_time > 0
                         THEN [self EXCEPT !.black_time = self.black_time - 1]
                         ELSE self
         IN  IF dec.white_time <= 0 \/ dec.black_time <= 0
             THEN [dec EXCEPT !.game_active = FALSE]
             ELSE dec
    ELSE self

\* update_timer_draws with line 96 moved out of the if: every iteration draws
update_timer_draws_always(self) == TRUE

\* update_timer_draws without line 96: the timer loop never draws
update_timer_draws_never(self) == FALSE

\* whether that iteration calls draw_clock (line 96 is inside the if of line 88)
update_timer_draws(self) == self.game_active

\* whether an iteration of watch_buttons toggles, given the two pin levels
watch_buttons_toggles(self, btn_white, btn_black) ==
    /\ self.game_active
    /\ \/ btn_white /\ self.current_turn = WHITE
       \/ btn_black /\ self.current_turn = BLACK

\* watch_buttons_step without the test of line 102: presses count when no game
\* is active
watch_buttons_step_ignores_active(self, btn_white, btn_black) ==
    IF btn_white /\ self.current_turn = WHITE
    THEN [self EXCEPT !.current_turn = BLACK]
    ELSE IF btn_black /\ self.current_turn = BLACK
         THEN [self EXCEPT !.current_turn = WHITE]
         ELSE self

\* one iteration of watch_buttons, lines 102-113: the state it leaves
watch_buttons_step(self, btn_white, btn_black) ==
    IF self.game_active
    THEN IF btn_white /\ self.current_turn = WHITE
         THEN [self EXCEPT !.current_turn = BLACK]
         ELSE IF btn_black /\ self.current_turn = BLACK
              THEN [self EXCEPT !.current_turn = WHITE]
              ELSE self
    ELSE self

\* start_new_game without line 122: the side on turn is kept (a resume)
start_new_game_keeps_turn(self, elo_val, minutes) ==
    [self EXCEPT !.elo = elo_val,
                 !.white_time = minutes * SecondsPerMinute,
                 !.black_time = minutes * SecondsPerMinute,
                 !.game_active = TRUE]

\* start_new_game, lines 117-122
start_new_game(self, elo_val, minutes) ==
    [self EXCEPT !.elo = elo_val,
                 !.white_time = minutes * SecondsPerMinute,
                 !.black_time = minutes * SecondsPerMinute,
                 !.game_active = TRUE,
                 !.current_turn = WHITE]

\* on_write, lines 134-142, up to the call: what the handler does with data
on_write_parse(data) ==
    IF ~startswith(data, StartPrefix)
    THEN [kind |-> "ignored", args |-> <<>>]
    ELSE LET parts == split(data, ":") IN
         IF Len(parts) < 3 \/ ~int(parts[3]).ok
         THEN [kind |-> "error", args |-> <<>>]
         ELSE IF Len(parts) < 5 \/ ~int(parts[5]).ok
              THEN [kind |-> "error", args |-> <<>>]
              ELSE [kind |-> "start",
                    args |-> <<int(parts[3]).value, int(parts[5]).value>>]

----------------------------------------------------------------------------
(* Rendering *)

Blank == [w_outline |-> "", b_outline |-> "", wm |-> 0, ws |-> 0, bm |-> 0, bs |-> 0,
          elo |-> 0, banner |-> FALSE]

\* draw_result without line 61: canvas(None) raises on every call
draw_result_without_guard(dev, scr, self, faulty) ==
    IF dev = "None"
    THEN {[raised |-> TRUE, screen |-> scr]}
    ELSE {[raised |-> FALSE, screen |-> draw_clock(self)]}
         \cup (IF faulty THEN {[raised |-> TRUE, screen |-> scr]} ELSE {})

\* the outcomes of a call of draw_clock (lines 60-84) on a system whose device
\* is dev and whose display shows scr: without a device it returns at once
\* (line 61); with one the frame is flushed to the display, or, where the
\* display link can fail (faulty), the drawing raises and nothing is flushed
draw_result(dev, scr, self, faulty) ==
    IF dev = "None"
    THEN {[raised |-> FALSE, screen |-> scr]}
    ELSE {[raised |-> FALSE, screen |-> draw_clock(self)]}
         \cup (IF faulty THEN {[raised |-> TRUE, screen |-> scr]} ELSE {})

DrawOutcomes(self, faulty) == draw_result(device, screen, self, faulty)

\* the record of a step: the handler, whether the game was active when it began,
\* whether it called draw_clock, whether that call raised, and the arguments
\* passed to start_new_game
Step(op, drew, raised, args) ==
    [op |-> op, was_active |-> game_active, drew |-> drew, raised |-> raised,
     args |-> args]

SetGame(self) ==
    /\ white_time' = self.white_time
    /\ black_time' = self.black_time
    /\ current_turn' = self.current_turn
    /\ game_active' = self.game_active
    /\ elo' = self.elo

----------------------------------------------------------------------------
(* The event loop.  A coroutine keeps the loop until it awaits; update_timer *)
(* awaits only at line 97, so the other callbacks run only while the timer  *)
(* loop is there.                                                           *)

\* timer_at_await with a second await, placed between the decrement and the
\* terminal check
timer_at_await_after_decrement(pc) == pc \in {"97", "94"}

\* whether update_timer, about to execute line pc, is suspended in an await
timer_at_await(pc) == pc = "97"

loop_free == timer_at_await(timer_pc)

\* after_toggle_pc without the sleeps of lines 107 and 113: the loop polls on
after_toggle_pc_no_debounce == "poll"

\* where watch_buttons is after a toggle: in the 0.5s sleep of line 107 / 113
after_toggle_pc == "debounce"

----------------------------------------------------------------------------
(* The twin: the program with device = None, taking the same events *)

TwinDrawRaises(self) == \E o \in draw_result("None", Blank, self, FALSE) : o.raised

twin_run_server(t) ==
    IF t.main # "starting" THEN t
    ELSE IF TwinDrawRaises(t.game)
         THEN [t EXCEPT !.main = "crashed"]
         ELSE [t EXCEPT !.main = "running", !.timer_task = "running",
                        !.button_task = "running"]

twin_update_timer(t) ==
    IF t.main = "running" /\ t.timer_task = "running"
    THEN LET self == update_timer_step(t.game) IN
         [t EXCEPT !.game = self,
                   !.timer_task = IF update_timer_draws(t.game) /\ TwinDrawRaises(self)
                                  THEN "failed" ELSE @]
    ELSE t

twin_watch_buttons(t, btn_white, btn_black) ==
    IF t.main = "running" /\ t.button_task = "running" /\ t.button_pc = "poll"
    THEN LET self == watch_buttons_step(t.game, btn_white, btn_black)
             toggled == watch_buttons_toggles(t.game, btn_white, btn_black)
         IN  [t EXCEPT !.game = self,
                       !.button_task = IF toggled /\ TwinDrawRaises(self)
                                       THEN "failed" ELSE @,
                       !.button_pc = IF toggled /\ ~TwinDrawRaises(self)
                                     THEN after_toggle_pc ELSE @]
    ELSE t

twin_debounce_done(t) ==
    IF t.main = "running" /\ t.button_task = "running" /\ t.button_pc = "debounce"
    THEN [t EXCEPT !.button_pc = "poll"]
    ELSE t

twin_on_write(t, p) ==
    IF t.main = "running" /\ p.kind = "start"
    THEN [t EXCEPT !.game = start_new_game(t.game, p.args[1], p.args[2])]
    ELSE t

----------------------------------------------------------------------------
(* Initial state: ChessSystem() has been constructed by run_server *)

InitialGame ==
    [white_time |-> DefaultTime, black_time |-> DefaultTime, current_turn |-> WHITE,
     game_active |-> FALSE, elo |-> DefaultElo]

InitGame ==
    /\ white_time = DefaultTime
    /\ black_time = DefaultTime
    /\ current_turn = WHITE
    /\ game_active = FALSE
    /\ elo = DefaultElo
    /\ screen = Blank
    /\ main = "starting"
    /\ timer_task = "none"
    /\ button_task = "none"
    /\ button_pc = "poll"
    /\ timer_pc = "97"
    /\ gpio = "setup"
    /\ run = <<>>
    /\ since = <<>>
    /\ toggles = 0
    /\ twin = [game |-> InitialGame, main |-> "starting", timer_task |-> "none",
               button_task |-> "none", button_pc |-> "poll"]
    /\ last = [op |-> "init", was_active |-> FALSE, drew |-> FALSE, raised |-> FALSE,
               args |-> <<>>]

\* the display came up, or its initialisation raised and device is None; the
\* buttons are pressed and released freely
Init ==
    /\ device \in {"ili9488", "None"}
    /\ held = "none"
    /\ InitGame

----------------------------------------------------------------------------
(* run_server, lines 128-156: the server starts, both tasks are created and *)
(* the first frame is drawn; an exception of that draw leaves run_server    *)

run_server(faulty) ==
    /\ main = "starting"
    /\ \E o \in DrawOutcomes(Game, faulty) :
          /\ screen' = o.screen
          /\ last' = Step("run_server", TRUE, o.raised, <<>>)
          /\ IF o.raised
             THEN /\ main' = "crashed"
                  /\ timer_task' = "cancelled"
                  /\ button_task' = "cancelled"
             ELSE /\ main' = "running"
                  /\ timer_task' = "running"
                  /\ button_task' = "running"
    /\ twin' = twin_run_server(twin)
    /\ UNCHANGED <<gameVars, device, button_pc, timer_pc, gpio, held, run, since,
                   toggles>>

\* adding the service or starting the BLE server (lines 145-152) raises: the
\* exception leaves run_server and asyncio.run, and is not a KeyboardInterrupt
run_server_fails ==
    /\ main = "starting"
    /\ main' = "crashed"
    /\ last' = Step("run_server", FALSE, FALSE, <<>>)
    /\ twin' = [twin EXCEPT !.main = "crashed"]
    /\ UNCHANGED <<gameVars, device, screen, timer_task, button_task, button_pc,
                   timer_pc, gpio, held, run, since, toggles>>

\* __main__, lines 162-165: KeyboardInterrupt ends asyncio.run, which cancels
\* the tasks, and the handler calls GPIO.cleanup()
KeyboardInterrupt ==
    /\ main \in {"starting", "running"}
    /\ main' = "stopped"
    /\ gpio' = "cleanup"
    /\ timer_task' = IF timer_task = "running" THEN "cancelled" ELSE timer_task
    /\ button_task' = IF button_task = "running" THEN "cancelled" ELSE button_task
    /\ last' = Step("interrupt", FALSE, FALSE, <<>>)
    /\ twin' = [twin EXCEPT !.main = "stopped"]
    /\ UNCHANGED <<gameVars, device, screen, button_pc, timer_pc, held, run, since,
                   toggles>>

----------------------------------------------------------------------------
(* update_timer, lines 87-97: one iteration *)

RunAfterTick ==
    IF run = <<>> THEN run
    ELSE <<run[1], IF run[2] < MaxTicks THEN run[2] + 1 ELSE run[2]>>

\* `since` counts the iterations that found the game active
SinceAfterTick ==
    IF since = <<>> \/ ~game_active THEN since
    ELSE <<since[1], IF since[2] < MaxGameTicks THEN since[2] + 1 ELSE since[2]>>

update_timer(faulty) ==
    /\ main = "running"
    /\ timer_task = "running"
    /\ timer_pc = "97"
    /\ LET self == update_timer_step(Game) IN
          /\ SetGame(self)
          /\ run' = RunAfterTick
          /\ since' = SinceAfterTick
          /\ IF update_timer_draws(Game)
             THEN \E o \in DrawOutcomes(self, faulty) :
                     /\ screen' = o.screen
                     /\ timer_task' = IF o.raised THEN "failed" ELSE timer_task
                     /\ last' = Step("tick", TRUE, o.raised, <<>>)
             ELSE /\ UNCHANGED <<screen, timer_task>>
                  /\ last' = Step("tick", FALSE, FALSE, <<>>)
    /\ twin' = twin_update_timer(twin)
    /\ UNCHANGED <<device, main, button_task, button_pc, timer_pc, gpio, held, toggles>>

----------------------------------------------------------------------------
(* watch_buttons, lines 101-114: one iteration up to its first sleep.  The  *)
(* levels read from the two pins are inputs; during a continuous press of   *)
(* one button that pin reads high and the other low.                        *)

PinLevels(btn_white, btn_black) ==
    /\ held = "white" => (btn_white /\ ~btn_black)
    /\ held = "black" => (btn_black /\ ~btn_white)

TogglesAfter(toggled) ==
    IF held # "none" /\ toggled /\ toggles < MaxToggles THEN toggles + 1 ELSE toggles

watch_buttons_read(btn_white, btn_black, faulty) ==
    /\ main = "running"
    /\ button_task = "running"
    /\ button_pc = "poll"
    /\ loop_free
    /\ PinLevels(btn_white, btn_black)
    /\ LET self == watch_buttons_step(Game, btn_white, btn_black) IN
          /\ SetGame(self)
          /\ toggles' = TogglesAfter(watch_buttons_toggles(Game, btn_white, btn_black))
          /\ IF watch_buttons_toggles(Game, btn_white, btn_black)
             THEN \E o \in DrawOutcomes(self, faulty) :
                     /\ screen' = o.screen
                     /\ button_task' = IF o.raised THEN "failed" ELSE button_task
                     /\ button_pc' = IF o.raised THEN button_pc ELSE after_toggle_pc
                     /\ last' = Step("button", TRUE, o.raised, <<>>)
                     /\ run' = <<>>
             ELSE /\ UNCHANGED <<screen, button_task, button_pc, run>>
                  /\ last' = Step("button", FALSE, FALSE, <<>>)
    /\ twin' = twin_watch_buttons(twin, btn_white, btn_black)
    /\ UNCHANGED <<device, main, timer_task, timer_pc, gpio, held, since>>

watch_buttons(faulty) ==
    \E btn_white \in BOOLEAN, btn_black \in BOOLEAN :
        watch_buttons_read(btn_white, btn_black, faulty)

\* the 0.5s sleep of line 107/113 ends; the loop goes on to line 114 and polls again
debounce_done ==
    /\ main = "running"
    /\ button_task = "running"
    /\ button_pc = "debounce"
    /\ loop_free
    /\ button_pc' = "poll"
    /\ last' = Step("debounce", FALSE, FALSE, <<>>)
    /\ twin' = twin_debounce_done(twin)
    /\ UNCHANGED <<gameVars, device, screen, main, timer_task, button_task, timer_pc,
                   gpio, held, run, since, toggles>>

----------------------------------------------------------------------------
(* on_write, lines 130-142: one write request.  An exception of draw_clock  *)
(* inside start_new_game is caught by the handler's except clause.          *)

\* on_write_parse of every command, computed once
CommandParse == [d \in Commands |-> on_write_parse(d)]

on_write(data, faulty) ==
    /\ main = "running"
    /\ loop_free
    /\ LET p == CommandParse[data] IN
          /\ twin' = twin_on_write(twin, p)
          /\ IF p.kind = "start"
             THEN LET self == start_new_game(Game, p.args[1], p.args[2]) IN
                  /\ SetGame(self)
                  /\ run' = <<p.args[2], 0>>
                  /\ since' = <<p.args[2], 0>>
                  /\ \E o \in DrawOutcomes(self, faulty) :
                        /\ screen' = o.screen
                        /\ last' = Step("write", TRUE, o.raised, p.args)
             ELSE /\ UNCHANGED <<gameVars, screen, run, since>>
                  /\ last' = Step("write", FALSE, FALSE, <<>>)
    /\ UNCHANGED <<device, main, timer_task, button_task, button_pc, timer_pc, gpio,
                   held, toggles>>

write_request(faulty) == \E data \in Commands : on_write(data, faulty)

----------------------------------------------------------------------------
(* Spec: the display, where present, works: draw_clock never raises *)

Next ==
    \/ run_server(FALSE)
    \/ update_timer(FALSE)
    \/ watch_buttons(FALSE)
    \/ debounce_done
    \/ write_request(FALSE)

Spec == Init /\ [][Next]_vars

(* SpecFaults: the display is present and any call of draw_clock may raise *)

InitFaults ==
    /\ device = "ili9488"
    /\ held = "none"
    /\ InitGame

NextFaults ==
    \/ run_server(TRUE)
    \/ update_timer(TRUE)
    \/ watch_buttons(TRUE)
    \/ debounce_done
    \/ write_request(TRUE)

SpecFaults == InitFaults /\ [][NextFaults]_vars

(* SpecLifecycle: Spec with the ways the process ends: an exception while   *)
(* the server is brought up, and a keyboard interrupt at any time           *)

NextLifecycle ==
    \/ run_server(FALSE)
    \/ run_server_fails
    \/ KeyboardInterrupt
    \/ update_timer(FALSE)
    \/ watch_buttons(FALSE)
    \/ debounce_done
    \/ write_request(FALSE)

SpecLifecycle == Init /\ [][NextLifecycle]_vars

----------------------------------------------------------------------------
(* SpecSteps: Spec with the iteration of update_timer taken statement by    *)
(* statement: the test of line 88, the decrement of lines 89-92, the        *)
(* terminal check of lines 94-95, the draw of line 96                       *)

\* lines 89-92
update_timer_decrement(self) ==
    IF self.current_turn = WHITE /\ self.white_time > 0
    THEN [self EXCEPT !.white_time = self.white_time - 1]
    ELSE IF self.current_turn = BLACK /\ self.black_time > 0
         THEN [self EXCEPT !.black_time = self.black_time - 1]
         ELSE self

\* lines 94-95
update_timer_terminal(self) ==
    IF self.white_time <= 0 \/ self.black_time <= 0
    THEN [self EXCEPT !.game_active = FALSE]
    ELSE self

\* the sleep of line 97 is over and line 88 is evaluated
timer_test ==
    /\ main = "running"
    /\ timer_task = "running"
    /\ timer_pc = "97"
    /\ timer_pc' = IF game_active THEN "89" ELSE "97"
    /\ run' = RunAfterTick
    /\ since' = SinceAfterTick
    /\ twin' = IF game_active THEN twin ELSE twin_update_timer(twin)
    /\ last' = Step("tick_test", FALSE, FALSE, <<>>)
    /\ UNCHANGED <<gameVars, device, screen, main, timer_task, button_task, button_pc,
                   gpio, held, toggles>>

timer_decrement ==
    /\ main = "running"
    /\ timer_task = "running"
    /\ timer_pc = "89"
    /\ SetGame(update_timer_decrement(Game))
    /\ timer_pc' = "94"
    /\ last' = Step("tick_decrement", FALSE, FALSE, <<>>)
    /\ UNCHANGED <<device, screen, main, timer_task, button_task, button_pc, gpio, held,
                   run, since, toggles, twin>>

timer_check ==
    /\ main = "running"
    /\ timer_task = "running"
    /\ timer_pc = "94"
    /\ SetGame(update_timer_terminal(Game))
    /\ timer_pc' = "96"
    /\ last' = Step("tick_check", FALSE, FALSE, <<>>)
    /\ UNCHANGED <<device, screen, main, timer_task, button_task, button_pc, gpio, held,
                   run, since, toggles, twin>>

timer_draw(faulty) ==
    /\ main = "running"
    /\ timer_task = "running"
    /\ timer_pc = "96"
    /\ timer_pc' = "97"
    /\ \E o \in DrawOutcomes(Game, faulty) :
          /\ screen' = o.screen
          /\ timer_task' = IF o.raised THEN "failed" ELSE timer_task
          /\ last' = Step("tick_draw", TRUE, o.raised, <<>>)
    /\ twin' = twin_update_timer(twin)
    /\ UNCHANGED <<gameVars, device, main, button_task, button_pc, gpio, held, run,
                   since, toggles>>

NextSteps ==
    \/ run_server(FALSE)
    \/ timer_test
    \/ timer_decrement
    \/ timer_check
    \/ timer_draw(FALSE)
    \/ watch_buttons(FALSE)
    \/ debounce_done
    \/ write_request(FALSE)

SpecSteps == Init /\ [][NextSteps]_vars

----------------------------------------------------------------------------
(* SpecValid: Spec where every start command names a positive number of     *)
(* minutes                                                                  *)

PositiveCommands ==
    { d \in Commands : CommandParse[d].kind = "start" => CommandParse[d].args[2] > 0 }

valid_write_request == \E data \in PositiveCommands : on_write(data, FALSE)

NextValid ==
    \/ run_server(FALSE)
    \/ update_timer(FALSE)
    \/ watch_buttons(FALSE)
    \/ debounce_done
    \/ valid_write_request

SpecValid == Init /\ [][NextValid]_vars

(* SpecLive: Spec where the timer loop keeps running: its sleep of line 97  *)
(* always ends                                                              *)

SpecLive == Spec /\ WF_vars(update_timer(FALSE))

----------------------------------------------------------------------------
(* SpecHeld: Spec during one continuous press: one button is down from the  *)
(* start and stays down, the other stays up                                 *)

InitHeld ==
    /\ device \in {"ili9488", "None"}
    /\ held \in {"white", "black"}
    /\ InitGame

SpecHeld == InitHeld /\ [][Next]_vars

----------------------------------------------------------------------------
(* Properties *)

Opponent(side) == ~side

\* C1: a call start_new_game(elo, minutes) with minutes > 0, from whatever
\* state, ends with both times at minutes*60, WHITE on turn, the game active
\* and elo stored.
C1_StartIsFullReset ==
    (last.op = "write" /\ last.args # <<>> /\ last.args[2] > 0) =>
        /\ white_time = last.args[2] * 60
        /\ black_time = last.args[2] * 60
        /\ current_turn = WHITE
        /\ game_active
        /\ elo = last.args[1]

\* a start command with minutes > 0 has just been handled while a game was running
C1_Witness ==
    /\ last.op = "write"
    /\ last.args = <<12, 1>>
    /\ last.was_active
    /\ white_time = 60 /\ black_time = 60 /\ current_turn = WHITE /\ game_active
    /\ elo = 12

\* C2: a timer tick executed while the game is active never increases
\* white_time or black_time, and both are non-negative before and after it.
C2_TicksNonIncreasingNonNegative ==
    [][(last'.op = "tick" /\ game_active) =>
          /\ white_time' <= white_time
          /\ black_time' <= black_time
          /\ white_time >= 0 /\ black_time >= 0
          /\ white_time' >= 0 /\ black_time' >= 0]_vars

\* C3: a tick taken while the game is active decreases the time of the side on
\* turn by exactly 1 and leaves the other time unchanged; a tick taken while
\* the game is inactive changes neither time.
C3_TickDecrementsSideOnTurn ==
    [][last'.op = "tick" =>
          IF game_active
          THEN IF current_turn = WHITE
               THEN white_time' = white_time - 1 /\ black_time' = black_time
               ELSE black_time' = black_time - 1 /\ white_time' = white_time
          ELSE white_time' = white_time /\ black_time' = black_time]_vars

\* C4: while the game is inactive, every tick and every button poll leaves
\* white_time, black_time, current_turn, game_active and elo unchanged, and
\* game_active becomes true only by a start command.
C4_InactiveUntilStart ==
    [][~game_active =>
          /\ last'.op \in {"tick", "button"} => UNCHANGED gameVars
          /\ game_active' => (last'.op = "write" /\ last'.args # <<>>)]_vars

\* a game has ended on white's clock and a button poll has run since
C4_Witness ==
    /\ last.op = "button"
    /\ ~last.was_active
    /\ ~game_active
    /\ white_time = 0

\* C5: a button poll with the pins at levels (btn_white, btn_black) changes the
\* state only when the game is active and the pin of the side on turn is high,
\* and then only current_turn, which goes to the opponent; in every other
\* case the whole game state is unchanged.
C5_TurnSignal ==
    [][\A btn_white \in BOOLEAN, btn_black \in BOOLEAN :
          watch_buttons_read(btn_white, btn_black, FALSE) =>
              IF game_active /\ (IF current_turn = WHITE THEN btn_white ELSE btn_black)
              THEN /\ current_turn' = Opponent(current_turn)
                   /\ UNCHANGED <<white_time, black_time, game_active, elo>>
              ELSE UNCHANGED gameVars]_vars

\* a valid press of white has just handed the turn to black
C5_Witness ==
    /\ last.op = "button"
    /\ last.drew
    /\ game_active
    /\ current_turn = BLACK

\* a command is malformed when it has not exactly five colon-separated fields
\* or the difficulty or minutes field is not an integer
Malformed(data) ==
    LET parts == split(data, ":") IN
        \/ Len(parts) # 5
        \/ ~int(parts[3]).ok
        \/ ~int(parts[5]).ok

MalformedCommands == { d \in Commands : Malformed(d) }

\* C6: a write of a malformed command leaves white_time, black_time,
\* current_turn, game_active and elo as they were.
C6_MalformedLeavesState ==
    [][\A d \in MalformedCommands : on_write(d, FALSE) => UNCHANGED gameVars]_vars

\* C7: after a start with N = minutes*60 and no turn toggle since, the state
\* after exactly N ticks is white_time = 0, game inactive, black_time = N, and
\* after k < N ticks the game is active with white_time = N - k.
C7_WhiteRunsOut ==
    run # <<>> =>
        LET N == run[1] * 60
            k == run[2]
        IN  /\ k = N => (white_time = 0 /\ ~game_active /\ black_time = N)
            /\ k < N => (game_active /\ white_time = N - k)

\* C8: no call of draw_clock sees the game active with a negative time.
C8_DrawNeverSeesNegativeActive ==
    last.drew => ~(game_active /\ (white_time < 0 \/ black_time < 0))

\* C9 as stated: every iteration of the timer loop calls draw_clock.
C9_EveryTickRenders ==
    last.op = "tick" => last.drew

\* C9 amended: an iteration of the timer loop calls draw_clock exactly when the
\* game was active at its beginning.
C9_TickRendersIffActive ==
    last.op = "tick" => (last.drew <=> last.was_active)

\* the timer loop has just run with no game active and has not drawn
C9_Witness ==
    /\ last.op = "tick"
    /\ ~last.was_active
    /\ ~last.drew
    /\ main = "running"

\* C10: a draw_clock call that raises in the timer loop or in the button loop
\* leaves that loop running.
C10_LoopsSurviveDrawFailure ==
    last.raised =>
        /\ last.op = "tick" => timer_task = "running"
        /\ last.op = "button" => button_task = "running"

\* C11: with a working display the game state is, after every event, the one
\* of the same program built with device = None and fed the same start
\* commands, ticks and button samples.
C11_SameWithoutDisplay ==
    device = "ili9488" => twin.game = Game

\* with a working display a game has been started, handed to black and has run
\* out on black's clock, and the display shows it
C11_Witness ==
    /\ device = "ili9488"
    /\ twin.game = Game
    /\ ~game_active
    /\ black_time = 0
    /\ white_time < 60
    /\ screen = draw_clock(Game)

\* C12: whenever the process has ended, by a keyboard interrupt or by any other
\* exception leaving run_server, the GPIO pins have been cleaned up.
C12_CleanupOnEveryExit ==
    main \in {"stopped", "crashed"} => gpio = "cleanup"

\* C13: a render highlights exactly one panel, white's exactly when white is
\* on turn and black's exactly when black is, and shows the waiting indicator
\* exactly when the game is not active.
C13_RenderHighlightsSideOnTurn ==
    (last.drew /\ device = "ili9488") =>
        /\ (screen.w_outline = C_GOLD) <=> (current_turn = WHITE)
        /\ (screen.b_outline = C_GOLD) <=> (current_turn = BLACK)
        /\ (screen.w_outline = C_GOLD) # (screen.b_outline = C_GOLD)
        /\ screen.banner <=> ~game_active

\* a valid press of white has just been rendered: black's panel is highlighted
C13_Witness ==
    /\ last.op = "button"
    /\ last.drew
    /\ device = "ili9488"
    /\ current_turn = BLACK
    /\ screen.b_outline = C_GOLD
    /\ ~screen.banner

\* C14: while update_timer is between its decrement and its terminal check, or
\* between the terminal check and the render, the only step that can be taken
\* is the next statement of that same tick: no start command and no turn
\* toggle comes in between.
C14_TickIsAtomic ==
    [][(timer_pc \in {"94", "96"}) => (last'.op \in {"tick_check", "tick_draw"})]_vars

\* the terminal check of a tick has just ended the game and the render of that
\* tick is still to come
C14_Witness ==
    /\ timer_pc = "96"
    /\ last.op = "tick_check"
    /\ last.was_active
    /\ ~game_active

\* C15: a toggle by the button loop puts the loop into its debounce sleep; while
\* it sleeps it takes no sample, so a second toggle can only follow the end of
\* the sleep; timer ticks and start commands can be taken during the sleep.
C15_DebounceWindow ==
    /\ [][/\ (last'.op = "button" /\ last'.drew) => button_pc' = "debounce"
          /\ button_pc = "debounce" => (last'.op # "button")]_vars
    /\ [](button_pc = "debounce" /\ main = "running" =>
              /\ timer_task = "running" => ENABLED update_timer(FALSE)
              /\ ENABLED write_request(FALSE))

\* a tick has been taken while the button loop was in its debounce sleep
C15_Witness ==
    /\ button_pc = "debounce"
    /\ last.op = "tick"
    /\ last.drew
    /\ game_active

\* C16: with a working display, whenever the event loop is free for another
\* actor, the frame on the display is the one of the current game state.
C16_ScreenFollowsState ==
    (device = "ili9488" /\ main = "running" /\ loop_free) => screen = draw_clock(Game)

\* the tick that ended the game on black's clock has been rendered
C16_Witness ==
    /\ device = "ili9488"
    /\ last.op = "tick"
    /\ last.drew
    /\ ~game_active
    /\ black_time = 0
    /\ screen = draw_clock(Game)

\* C17: when every game is started with minutes > 0, an active game has both
\* times strictly positive.
C17_RunningClocksPositive ==
    game_active => (white_time > 0 /\ black_time > 0)

\* a running game in which both sides have used time and black has one second left
C17_Witness ==
    /\ game_active
    /\ black_time = 1
    /\ white_time < 60
    /\ last.op = "tick"

TimeOf(side) == IF side = WHITE THEN white_time ELSE black_time

\* C18: once a game started with minutes > 0 is over, the time of the side on
\* turn is 0 and the other side's time is positive, whatever ticks and presses
\* follow.
C18_LoserIsSideOnTurn ==
    (since # <<>> /\ since[1] > 0 /\ ~game_active) =>
        /\ TimeOf(current_turn) = 0
        /\ TimeOf(Opponent(current_turn)) > 0

\* a game has ended on black's clock and the buttons were polled afterwards
C18_Witness ==
    /\ since # <<>> /\ since[1] > 0
    /\ ~game_active
    /\ last.op = "button"
    /\ current_turn = BLACK
    /\ black_time = 0
    /\ white_time > 0

\* the ticks within which the game of the last start must be over: the sum of
\* the two times it started with, less one
TickBudget == 2 * since[1] * 60 - 1

\* C19, the bound: a game is over once white_time + black_time - 1 ticks of it
\* have been taken, the times being those its start command set.
C19_EndsWithinBudget ==
    (since # <<>> /\ since[2] >= TickBudget) => ~game_active

\* C19, the eventuality: unless start commands keep arriving, the game is
\* eventually inactive for good.
C19_EventuallyEnds ==
    \/ []<><<last'.op = "write" /\ last'.args # <<>>>>_vars
    \/ <>[](~game_active)

\* C20: during one continuous press the button loop changes current_turn at
\* most once.
C20_OneToggleForOnePress ==
    held # "none" => toggles <= 1

====
